---- MODULE Spec2Model ----
(***************************************************************************)
(* homegit: a wrapper that keeps bare git repositories under               *)
(* <HOME>/.homegit/<repo> and forwards git commands to them.               *)
(*                                                                         *)
(* Python strings are modelled as sequences of one-character strings, so   *)
(* that str.lower, os.path.commonprefix and string concatenation are       *)
(* computed character by character as the interpreter computes them.       *)
(***************************************************************************)
EXTENDS Integers, Sequences, FiniteSets, TLC

(* ------------------------------ bounds -------------------------------- *)

\* Largest exit code the external tool returns in the model (0..MaxExit).
MaxExit == 2

\* Largest number of arguments after the program name drawn for the
\* classifier's inputs.
MaxArgs == 2

\* The longest argument list of the one-invocation model.
MaxTokens == 3

(* ------------------------- string literals ---------------------------- *)

PROG == <<"h", "o", "m", "e", "g", "i", "t">>
s_INIT == <<"I", "N", "I", "T">>
s_CLONE == <<"C", "L", "O", "N", "E">>
s_HELP == <<"H", "E", "L", "P">>
s_VERSION == <<"V", "E", "R", "S", "I", "O", "N">>
s_UNTRACK == <<"U", "N", "T", "R", "A", "C", "K">>
s_GIT == <<"G", "I", "T">>
s_dd_version == <<"-", "-", "v", "e", "r", "s", "i", "o", "n">>
s_d_v == <<"-", "v">>
s_dd_help == <<"-", "-", "h", "e", "l", "p">>
s_d_h == <<"-", "h">>
s_dd_bare == <<"-", "-", "b", "a", "r", "e">>
s_dd_git_dir == <<"-", "-", "g", "i", "t", "-", "d", "i", "r">>
s_dd_work_tree == <<"-", "-", "w", "o", "r", "k", "-", "t", "r", "e", "e">>
s_git_dir_eq == <<"-", "-", "g", "i", "t", "-", "d", "i", "r", "=">>
s_work_tree_eq == <<"-", "-", "w", "o", "r", "k", "-", "t", "r", "e", "e", "=">>
s_config == <<"c", "o", "n", "f", "i", "g">>
s_dd_get == <<"-", "-", "g", "e", "t">>
s_remote_origin_url == <<"r", "e", "m", "o", "t", "e", ".", "o", "r", "i", "g", "i", "n", ".", "u", "r", "l">>
s_dd_local == <<"-", "-", "l", "o", "c", "a", "l">>
s_showUntrackedFiles == <<"s", "t", "a", "t", "u", "s", ".", "s", "h", "o", "w", "U", "n", "t", "r", "a", "c", "k", "e", "d", "F", "i", "l", "e", "s">>
s_no == <<"n", "o">>
s_checkout == <<"c", "h", "e", "c", "k", "o", "u", "t">>
s_clone == <<"c", "l", "o", "n", "e">>
s_init == <<"i", "n", "i", "t">>
s_dot_homegit == <<"/", ".", "h", "o", "m", "e", "g", "i", "t">>
s_slash == <<"/">>
s_default == <<"d", "e", "f", "a", "u", "l", "t">>
s_status == <<"s", "t", "a", "t", "u", "s">>

\* Python's None, and the value of a name that has not been assigned yet.
PyNone == <<"None">>
Unset == <<>>

Range(s) == {s[i] : i \in DOMAIN s}

(* ----------------------------- str.lower ------------------------------ *)

UpperChars ==
  <<"A", "B", "C", "D", "E", "F", "G", "H", "I", "J", "K", "L", "M",
    "N", "O", "P", "Q", "R", "S", "T", "U", "V", "W", "X", "Y", "Z">>
LowerChars ==
  <<"a", "b", "c", "d", "e", "f", "g", "h", "i", "j", "k", "l", "m",
    "n", "o", "p", "q", "r", "s", "t", "u", "v", "w", "x", "y", "z">>

LowerChar(c) ==
  IF \E i \in DOMAIN UpperChars : UpperChars[i] = c
    THEN LowerChars[CHOOSE i \in DOMAIN UpperChars : UpperChars[i] = c]
    ELSE c

UpperChar(c) ==
  IF \E i \in DOMAIN LowerChars : LowerChars[i] = c
    THEN UpperChars[CHOOSE i \in DOMAIN LowerChars : LowerChars[i] = c]
    ELSE c

\* str.lower()
Lower(s) == [i \in DOMAIN s |-> LowerChar(s[i])]

(* ------------------------ module-level constants ---------------------- *)

IGNORED_ARGS == <<s_dd_bare, s_dd_git_dir, s_dd_work_tree>>

COMMANDS == <<s_INIT, s_CLONE, s_HELP, s_VERSION, s_UNTRACK>>

\* Command = Enum('Command', COMMANDS + ['GIT']); a member is its name.
Command == Range(COMMANDS) \cup {s_GIT}

CONVENIENCE_COMMANDS ==
  << <<s_dd_version, s_VERSION>>,
     <<s_d_v, s_VERSION>>,
     <<s_dd_help, s_HELP>>,
     <<s_d_h, s_HELP>> >>

\* The key of a command in the lookup table: cmd.lower().
command_key(cmd) == Lower(cmd)

\* dict(list of [key, value]): the list of its items.
command_dict ==
  [i \in 1..Len(COMMANDS) |-> <<command_key(COMMANDS[i]), COMMANDS[i]>>]
    \o CONVENIENCE_COMMANDS

\* dict.get(key, default): the last item with that key wins.
dict_get(d, key, default) ==
  IF \E i \in DOMAIN d : d[i][1] = key
    THEN LET last == CHOOSE i \in DOMAIN d :
                       /\ d[i][1] = key
                       /\ \A j \in DOMAIN d : d[j][1] = key => j <= i
         IN d[last][2]
    ELSE default

(* ------------------------------ classifier ---------------------------- *)

\* Faulty variant of lookup_token: the token is lower-cased before the lookup.
lookup_token_lowered(argv) == Lower(argv[2])

\* Faulty variant of lookup_token: the last token is looked up.
lookup_token_last(argv) == argv[Len(argv)]

\* The token looked up in the table: sys.argv[1], as typed.
lookup_token(argv) == argv[2]

\* parse_command(): argv is sys.argv, argv[1] is the program name.
parse_command(argv) ==
  [command |-> IF Len(argv) > 1
                 THEN dict_get(command_dict, lookup_token(argv), s_GIT)
                 ELSE PyNone,
   ignored_args |-> {argv[i] : i \in DOMAIN argv} \cap Range(IGNORED_ARGS)]

(* --------------------------- environment values ----------------------- *)

home_h == <<"/", "h">>
home_h_slash == <<"/", "h", "/">>
cwd_h_d == <<"/", "h", "/", "d">>
cwd_h2 == <<"/", "h", "2">>
cwd_t == <<"/", "t">>
git_ok == <<"/", "b", "i", "n", "/", "g", "i", "t">>
git_missing == <<"/", "n", "o", "g", "i", "t">>
url_a == <<"x", ":", "a">>
url_b == <<"x", ":", "b">>
s_work == <<"w", "o", "r", "k">>
s_newline == <<"\n">>

\* Values of HOME other than unset, of the working directory, of
\* GIT_EXECUTABLE (a launchable file, a path to no file, nothing found).
HomeVals == {home_h, home_h_slash}
Cwds == {home_h, cwd_h_d, cwd_h2, cwd_t}
GitVals == {git_ok, git_missing, PyNone}
Urls == {url_a, url_b}
RepoNames == {s_default, s_work}
ExitCodes == 0..MaxExit

\* Whether launching this path finds an executable file.
executable_exists(path) == path = git_ok

(* ------------------------------ Python values ------------------------- *)

PyStr(s) == [t |-> "str", v |-> s]
PyBytes(s) == [t |-> "bytes", v |-> s]
NoneVal == [t |-> "NoneType", v |-> <<>>]

\* a == b in Python: values of different types are unequal.
PyEq(a, b) == a.t = b.t /\ a.v = b.v

(* -------------------------------- paths ------------------------------- *)

RECURSIVE CollapseSlashes(_)
CollapseSlashes(p) ==
  IF Len(p) < 2 THEN p
  ELSE IF p[1] = "/" /\ p[2] = "/" THEN CollapseSlashes(Tail(p))
  ELSE <<p[1]>> \o CollapseSlashes(Tail(p))

\* os.path.abspath of an absolute path: duplicate and trailing slashes go.
abspath(p) ==
  LET q == CollapseSlashes(p)
  IN IF Len(q) > 1 /\ q[Len(q)] = "/" THEN SubSeq(q, 1, Len(q) - 1) ELSE q

\* os.path.commonprefix([a, b]): the longest common prefix, by character.
RECURSIVE commonprefix(_, _)
commonprefix(a, b) ==
  IF a = <<>> \/ b = <<>> \/ a[1] # b[1] THEN <<>>
  ELSE <<a[1]>> \o commonprefix(Tail(a), Tail(b))

\* HOMEGIT_DIR (HOMEGIT_DIR is not set in the environment) and BARE_REPO_DIR.
HOMEGIT_DIR(e) == e.HOME \o s_dot_homegit
BARE_REPO_DIR(e) == HOMEGIT_DIR(e) \o s_slash \o e.HOMEGIT_REPO

is_within_home_dir(e) ==
  LET home == abspath(e.HOME)
  IN commonprefix(e.cwd, home) = home

(* --------------------- the repository directory ----------------------- *)

\* A bare-repo directory: whether it exists, whether git created a
\* repository in it, its remote.origin.url and status.showUntrackedFiles=no.
Absent ==
  [present |-> FALSE, populated |-> FALSE, origin |-> PyNone, untrackedNo |-> FALSE]

(* ------------------- one invocation's running state ------------------- *)

\* c: the filesystem as the invocation has changed it so far, what it has
\* printed, the processes it has launched, its steps in order, the exception
\* in flight ("" when none) and the code given to sys.exit.
\* parsed: parse_command()'s result, Unparsed before main has called it;
\* handler: the run_* function main has called, "" before it has called one.
Unparsed == [command |-> Unset, ignored_args |-> {}]

Ctx0(fs) ==
  [root |-> fs.root, repos |-> fs.repos, out |-> <<>>, launched |-> <<>>,
   steps |-> <<>>, exc |-> "", code |-> 0, parsed |-> Unparsed,
   handler |-> ""]

Raised(c) == c.exc # ""

raise(c, x) == [c EXCEPT !.exc = x]

print(c, m, a) ==
  [c EXCEPT !.out = Append(@, [m |-> m, a |-> a]),
            !.steps = Append(@, m)]

\* sys.exit(message): the message goes to stderr, the exit code is 1.
sys_exit_message(c, m) ==
  [print(c, m, <<>>) EXCEPT !.exc = "SystemExit", !.code = 1]

\* sys.exit(n)
sys_exit_code(c, n) == [c EXCEPT !.exc = "SystemExit", !.code = n % 256]

(* ---------------------------- Process Invoker ------------------------- *)

naively_escaped(arg) ==
  IF " " \in Range(arg) THEN <<"\"">> \o arg \o <<"\"">> ELSE arg

RECURSIVE join(_)
join(args) ==
  IF args = <<>> THEN <<>>
  ELSE IF Len(args) = 1 THEN args[1]
  ELSE args[1] \o <<" ">> \o join(Tail(args))

\* if VERBOSE: print(f"Running: {command}")
run_log(e, c, command) ==
  IF Raised(c) \/ ~e.VERBOSE THEN c
  ELSE IF \E i \in DOMAIN command : command[i] = PyNone
    THEN raise(c, "TypeError")
  ELSE print(c, "Running",
             join([i \in DOMAIN command |-> naively_escaped(command[i])]))

\* check=True: a non-zero exit code raises CalledProcessError.
check_returncode(c, check, rc) ==
  IF check /\ rc # 0 THEN raise(c, "CalledProcessError") ELSE c

\* subprocess.run(command, cwd=..., check=...): cwd_ok is whether the cwd
\* handed to it exists, rc the exit code the tool returns when launched.
subprocess_run(c, step, command, cwd_ok, check, rc) ==
  IF Raised(c) THEN c
  ELSE IF command[1] = PyNone THEN raise(c, "TypeError")
  ELSE IF ~executable_exists(command[1]) \/ ~cwd_ok
    THEN raise(c, "FileNotFoundError")
  ELSE check_returncode(
         [c EXCEPT !.launched = Append(@, [cmd |-> command, rc |-> rc]),
                   !.steps = Append(@, step)],
         check, rc)

run(e, c, step, command, cwd_ok, check, rc) ==
  subprocess_run(run_log(e, c, command), step, command, cwd_ok, check, rc)

(* ------------------------------- utilities ---------------------------- *)

\* Faulty variant of bare_repo_dir_exists: the storage root is tested instead.
homegit_dir_exists(e, c) == c.root

bare_repo_dir_exists(e, c) == c.repos[e.HOMEGIT_REPO].present

\* What "git config --get remote.origin.url" answers for the directory: the
\* URL and a newline on stdout (bytes: the output is captured without
\* text=True) with exit code 0, or nothing with exit code 1.
origin_query(e, c) ==
  LET r == c.repos[e.HOMEGIT_REPO]
  IN IF r.populated /\ r.origin # PyNone
       THEN [rc |-> 0, stdout |-> PyBytes(r.origin \o s_newline)]
       ELSE [rc |-> 1, stdout |-> PyBytes(<<>>)]

get_remote_origin_url_run(e, c) ==
  run(e, c, "git config --get",
      <<e.GIT_EXECUTABLE, s_git_dir_eq \o BARE_REPO_DIR(e),
        s_work_tree_eq \o e.HOME, s_config, s_dd_get, s_remote_origin_url>>,
      TRUE, FALSE, origin_query(e, c).rc)

get_remote_origin_url(e, c) ==
  IF origin_query(e, c).rc = 0 THEN origin_query(e, c).stdout ELSE NoneVal

(* ----------------------------- error boundary ------------------------- *)

friendly_error_messages(c) ==
  IF c.exc = "CloneFailure" THEN sys_exit_message(c, "Error cloning repo")
  ELSE IF c.exc = "ExistingRepoDir" THEN sys_exit_message(c, "Existing repo")
  ELSE IF c.exc = "FileNotFoundError"
    THEN sys_exit_message(c, "Error executing git: No such file or directory")
  ELSE IF c.exc = "InitFailure" THEN sys_exit_message(c, "Error initializing repo")
  ELSE IF c.exc = "SettingShowUntrackedFilesFailure"
    THEN sys_exit_message(c, "Error setting status.showUntrackedFiles")
  ELSE c

(* ---------------------------- action handlers ------------------------- *)

then_print(c, m) == IF Raised(c) THEN c ELSE print(c, m, <<>>)

\* except subprocess.CalledProcessError as exception: raise failure
reraise(c, failure) ==
  IF c.exc = "CalledProcessError" THEN raise(c, failure) ELSE c

\* checkout_repo(): the context after it, and the value it returns.
checkout_repo_run(e, c) ==
  run(e, c, "git checkout",
      <<e.GIT_EXECUTABLE, s_git_dir_eq \o BARE_REPO_DIR(e),
        s_work_tree_eq \o e.HOME, s_checkout>>,
      TRUE, FALSE, e.tool.checkout)

checkout_repo(e) == e.tool.checkout = 0

\* existing_repo_url == git_repo_url, the requested URL being a str.
same_url(existing_repo_url, git_repo_url) ==
  PyEq(existing_repo_url, PyStr(git_repo_url))

\* try: os.mkdir(HOMEGIT_DIR) except FileExistsError: pass
mkdir_homegit_dir(c) ==
  IF Raised(c) \/ c.root THEN c
  ELSE [c EXCEPT !.root = TRUE, !.steps = Append(@, "mkdir HOMEGIT_DIR")]

\* Faulty variant of mkdir_bare_repo_dir: os.makedirs(..., exist_ok=True).
mkdir_bare_repo_dir_exist_ok(e, c) ==
  IF Raised(c) THEN c
  ELSE IF ~c.root THEN raise(c, "FileNotFoundError")
  ELSE IF c.repos[e.HOMEGIT_REPO].present THEN c
  ELSE [c EXCEPT !.repos[e.HOMEGIT_REPO] = [Absent EXCEPT !.present = TRUE],
                 !.steps = Append(@, "mkdir BARE_REPO_DIR")]

\* os.mkdir(BARE_REPO_DIR)
mkdir_bare_repo_dir(e, c) ==
  IF Raised(c) THEN c
  ELSE IF ~c.root THEN raise(c, "FileNotFoundError")
  ELSE IF c.repos[e.HOMEGIT_REPO].present THEN raise(c, "FileExistsError")
  ELSE [c EXCEPT !.repos[e.HOMEGIT_REPO] = [Absent EXCEPT !.present = TRUE],
                 !.steps = Append(@, "mkdir BARE_REPO_DIR")]

\* What a successful "git clone --bare url dir" leaves in the directory.
git_clone_effect(e, c, git_repo_url) ==
  IF Raised(c) THEN c
  ELSE [c EXCEPT !.repos[e.HOMEGIT_REPO] =
          [present |-> TRUE, populated |-> TRUE, origin |-> git_repo_url,
           untrackedNo |-> FALSE]]

\* Faulty variant of clone_repo_body: an existing directory with another origin is
\* not refused.
clone_repo_body_unrefused(e, c, dir_exists, existing_repo_url, git_repo_url) ==
  IF Raised(c) THEN c
  ELSE IF same_url(existing_repo_url, git_repo_url)
    THEN sys_exit_code(print(c, "Repo is already cloned", <<>>), 0)
  ELSE
    git_clone_effect(e,
      reraise(run(e, mkdir_bare_repo_dir(e, mkdir_homegit_dir(c)),
                  "git clone",
                  <<e.GIT_EXECUTABLE, s_clone, s_dd_bare, git_repo_url,
                    BARE_REPO_DIR(e)>>,
                  TRUE, TRUE, e.tool.clone),
              "CloneFailure"),
      git_repo_url)

\* clone_repo from line 129 on: c is the context after the origin query.
clone_repo_body(e, c, dir_exists, existing_repo_url, git_repo_url) ==
  IF Raised(c) THEN c
  ELSE IF dir_exists /\ ~same_url(existing_repo_url, git_repo_url)
    THEN raise(c, "ExistingRepoDir")
  ELSE IF same_url(existing_repo_url, git_repo_url)
    THEN sys_exit_code(print(c, "Repo is already cloned", <<>>), 0)
  ELSE
    git_clone_effect(e,
      reraise(run(e, mkdir_bare_repo_dir(e, mkdir_homegit_dir(c)),
                  "git clone",
                  <<e.GIT_EXECUTABLE, s_clone, s_dd_bare, git_repo_url,
                    BARE_REPO_DIR(e)>>,
                  TRUE, TRUE, e.tool.clone),
              "CloneFailure"),
      git_repo_url)

clone_repo(e, c, git_repo_url) ==
  clone_repo_body(e,
    IF bare_repo_dir_exists(e, c) THEN get_remote_origin_url_run(e, c) ELSE c,
    bare_repo_dir_exists(e, c),
    IF bare_repo_dir_exists(e, c) THEN get_remote_origin_url(e, c) ELSE NoneVal,
    git_repo_url)

\* The cwd handed to "git init": HOMEGIT_DIR, which must exist.
init_cwd_exists(c) == c.root

\* What a successful "git init --bare dir" creates.
git_init_effect(e, c) ==
  IF Raised(c) THEN c
  ELSE [c EXCEPT !.repos[e.HOMEGIT_REPO] =
          [present |-> TRUE, populated |-> TRUE, origin |-> PyNone,
           untrackedNo |-> FALSE]]

\* Faulty variant of init_repo: the existence check is missing.
init_repo_unchecked(e, c) ==
  IF Raised(c) THEN c
  ELSE
    git_init_effect(e,
      reraise(run(e, c, "git init",
                  <<e.GIT_EXECUTABLE, s_init, s_dd_bare, BARE_REPO_DIR(e)>>,
                  init_cwd_exists(c), TRUE, e.tool.init),
              "InitFailure"))

init_repo(e, c) ==
  IF Raised(c) THEN c
  ELSE IF bare_repo_dir_exists(e, c) THEN raise(c, "ExistingRepoDir")
  ELSE
    git_init_effect(e,
      reraise(run(e, c, "git init",
                  <<e.GIT_EXECUTABLE, s_init, s_dd_bare, BARE_REPO_DIR(e)>>,
                  init_cwd_exists(c), TRUE, e.tool.init),
              "InitFailure"))

\* What a successful "git config --local status.showUntrackedFiles no" sets.
git_config_effect(e, c) ==
  IF Raised(c) THEN c
  ELSE [c EXCEPT !.repos[e.HOMEGIT_REPO].untrackedNo = TRUE]

\* Faulty variant of do_not_show_untracked_files: a failed setting step
\* removes the directory again.
do_not_show_untracked_files_rollback(e, c) ==
  IF ~Raised(c) /\ e.tool.config # 0
    THEN [reraise(run(e, c, "git config",
                      <<e.GIT_EXECUTABLE, s_git_dir_eq \o BARE_REPO_DIR(e),
                        s_work_tree_eq \o e.HOME, s_config, s_dd_local,
                        s_showUntrackedFiles, s_no>>,
                      c.root, TRUE, e.tool.config),
                  "SettingShowUntrackedFilesFailure")
            EXCEPT !.repos[e.HOMEGIT_REPO] = Absent]
    ELSE git_config_effect(e,
           reraise(run(e, c, "git config",
                       <<e.GIT_EXECUTABLE, s_git_dir_eq \o BARE_REPO_DIR(e),
                         s_work_tree_eq \o e.HOME, s_config, s_dd_local,
                         s_showUntrackedFiles, s_no>>,
                       c.root, TRUE, e.tool.config),
                   "SettingShowUntrackedFilesFailure"))

do_not_show_untracked_files(e, c) ==
  git_config_effect(e,
    reraise(run(e, c, "git config",
                <<e.GIT_EXECUTABLE, s_git_dir_eq \o BARE_REPO_DIR(e),
                  s_work_tree_eq \o e.HOME, s_config, s_dd_local,
                  s_showUntrackedFiles, s_no>>,
                c.root, TRUE, e.tool.config),
            "SettingShowUntrackedFilesFailure"))

run_version(e, c) ==
  run(e, print(c, "homegit version", <<>>), "git --version",
      <<e.GIT_EXECUTABLE, s_dd_version>>, TRUE, FALSE, e.tool.version)

run_help(c) ==
  print(print(print(print(print(c,
    "Usage:", <<>>),
    "homegit init", <<>>),
    "homegit untrack", <<>>),
    "homegit clone <repository_url>", <<>>),
    "homegit [standard git commands and arguments...]", <<>>)

run_init(e, c) ==
  friendly_error_messages(
    then_print(do_not_show_untracked_files(e, init_repo(e, c)),
               "Initialized repo"))

\* if not checkout_repo(): print(warning)
checkout_warning(e, c) ==
  IF ~Raised(c) /\ ~checkout_repo(e)
    THEN print(c, "Warning: could not checkout latest changes", <<>>)
    ELSE c

\* Faulty variant of run_clone: the checkout comes before the setting step.
run_clone_checkout_first(e, c) ==
  IF Len(e.argv) # 3 THEN raise(c, "ValueError")
  ELSE
    friendly_error_messages(
      then_print(
        do_not_show_untracked_files(e,
          checkout_warning(e,
            checkout_repo_run(e, clone_repo(e, c, e.argv[3])))),
        "Cloned repo"))

run_clone(e, c) ==
  IF Len(e.argv) # 3 THEN raise(c, "ValueError")
  ELSE
    friendly_error_messages(
      then_print(
        checkout_warning(e,
          checkout_repo_run(e,
            do_not_show_untracked_files(e, clone_repo(e, c, e.argv[3])))),
        "Cloned repo"))

\* Faulty variant of rmtree_bare_repo_dir: shutil.rmtree(..., ignore_errors=True).
rmtree_ignore_errors(e, c) ==
  [c EXCEPT !.repos[e.HOMEGIT_REPO] = Absent,
            !.steps = Append(@, "rmtree BARE_REPO_DIR")]

\* Faulty variant of rmtree_bare_repo_dir: shutil.rmtree(HOMEGIT_DIR).
rmtree_homegit_dir(e, c) ==
  IF ~c.root THEN raise(c, "FileNotFoundError")
  ELSE [c EXCEPT !.root = FALSE,
                 !.repos = [r \in RepoNames |-> Absent],
                 !.steps = Append(@, "rmtree BARE_REPO_DIR")]

\* shutil.rmtree(BARE_REPO_DIR)
rmtree_bare_repo_dir(e, c) ==
  IF ~c.repos[e.HOMEGIT_REPO].present THEN raise(c, "FileNotFoundError")
  ELSE [c EXCEPT !.repos[e.HOMEGIT_REPO] = Absent,
                 !.steps = Append(@, "rmtree BARE_REPO_DIR")]

run_untrack(e, c) ==
  then_print(rmtree_bare_repo_dir(e, c), "Stopped tracking homegit repo")

\* The exit code run_git ends with once the tool has run: line 252.
git_returncode(e) == e.tool.git

\* run(command, stderr=..., stdin=..., stdout=...) of run_git: check is left
\* at run()'s default, True.
run_git_check == TRUE

\* sys.exit(completed_process.returncode), reached when nothing was raised.
run_git_exit(e, c) ==
  IF Raised(c) THEN c ELSE sys_exit_code(c, git_returncode(e))

\* Faulty variant of forwarded_args: the ignored flags are stripped.
forwarded_args_stripped(argv) ==
  SelectSeq(Tail(argv), LAMBDA arg : arg \notin Range(IGNORED_ARGS))

\* sys.argv[1:]
forwarded_args(argv) == Tail(argv)

run_git(e, c) ==
  IF ~bare_repo_dir_exists(e, c) THEN sys_exit_message(c, "Unknown repo")
  ELSE IF ~is_within_home_dir(e)
    THEN sys_exit_message(c, "The current working directory must be run within HOME")
  ELSE
    run_git_exit(e,
      friendly_error_messages(
        reraise(run(e, c, "git",
                    <<e.GIT_EXECUTABLE, s_git_dir_eq \o BARE_REPO_DIR(e),
                      s_work_tree_eq \o e.HOME>> \o forwarded_args(e.argv),
                    TRUE, run_git_check, e.tool.git),
                "SettingShowUntrackedFilesFailure")))

\* for ignored_arg in parsed_command.ignored_args: print(...), in the order
\* the set happens to iterate.
RECURSIVE print_ignored(_, _)
\* Faulty variant of print_ignored: the loop stops after its first pass.
print_ignored_first(c, order) ==
  IF order = <<>> THEN c ELSE print(c, "Ignoring argument", order[1])

print_ignored(c, order) ==
  IF order = <<>> THEN c
  ELSE print_ignored(print(c, "Ignoring argument", order[1]), Tail(order))

\* main calls the handler named h.
enter(c, h) == [c EXCEPT !.handler = h]

dispatch(e, c, command) ==
  IF command = PyNone \/ command = s_HELP THEN run_help(enter(c, "run_help"))
  ELSE IF command = s_VERSION THEN run_version(e, enter(c, "run_version"))
  ELSE IF command = s_INIT THEN run_init(e, enter(c, "run_init"))
  ELSE IF command = s_CLONE THEN run_clone(e, enter(c, "run_clone"))
  ELSE IF command = s_UNTRACK THEN run_untrack(e, enter(c, "run_untrack"))
  ELSE run_git(e, enter(c, "run_git"))

\* parsed_command = parse_command()
parsed(e, c) == [c EXCEPT !.parsed = parse_command(e.argv)]

\* main from line 269 on, reached when HOME is set.
main_body(e, order, c) ==
  dispatch(e, print_ignored(c, order), c.parsed.command)

\* Faulty variant of main: HOME is not tested.
main_unchecked(e, order, fs) == main_body(e, order, parsed(e, Ctx0(fs)))

main(e, order, fs) ==
  IF e.HOME = PyNone
    THEN sys_exit_message(Ctx0(fs),
           "You must set a value of the HOME environment vairable")
    ELSE main_body(e, order, parsed(e, Ctx0(fs)))

\* The process's exit status: 0 at the end of main, the code of sys.exit,
\* 1 with a traceback for an exception nothing catches.
exit_status(c) ==
  IF c.exc = "" THEN 0 ELSE IF c.exc = "SystemExit" THEN c.code ELSE 1

(* --------------------------------- state ------------------------------ *)

VARIABLES
  phase,           \* "prompt": no process; "exited": a process has just exited
  rootExists,      \* whether the storage root HOMEGIT_DIR exists
  repos,           \* the bare-repo directory of each repository name
  initDone,        \* an Init has exited 0 and no Untrack has run since
  pre,             \* the filesystem as the last invocation found it
  sys_argv,        \* the last invocation's sys.argv
  HOME,            \* its environment: HOME (PyNone when unset),
  HOMEGIT_REPO,    \*   HOMEGIT_REPO or "default",
  GIT_EXECUTABLE,  \*   GIT_EXECUTABLE or shutil.which('git'),
  VERBOSE,         \*   VERBOSE == "true",
  cwd,             \*   os.getcwd()
  tool,            \* the exit code the external tool gives each of its steps
  parsed_command,  \* parse_command()'s result, Unparsed before it ran
  handler,         \* the run_* function main called, "" when it called none
  out,             \* the lines printed, in order
  launched,        \* the processes launched, in order
  steps,           \* prints, launches and directory operations, in order
  exc,             \* how the invocation ended: "", "SystemExit", an exception
  exitCode,        \* the process's exit status
  race             \* two overlapping Clone processes, each at a line of its code

vars ==
  <<phase, rootExists, repos, initDone, pre, sys_argv, HOME, HOMEGIT_REPO, GIT_EXECUTABLE,
    VERBOSE, cwd, tool, parsed_command, handler, out, launched, steps, exc,
    exitCode, race>>

NoTool ==
  [init |-> 0, clone |-> 0, config |-> 0, checkout |-> 0, version |-> 0,
   git |-> 0]

\* The processes of the overlapping Clone invocations, and their state
\* before either has started: the line it is at, the URL it was given, the
\* locals dir_exists and existing_repo_url, the exception that ended it,
\* its exit status, whether it launched the bare-clone and whether it
\* printed "Cloned".
Procs == {"first", "second"}

NotStarted ==
  [pc |-> "idle", url |-> Unset, dir_exists |-> FALSE, existing |-> NoneVal,
   exc |-> "", code |-> 0, cloned |-> FALSE, printed |-> FALSE]

\* What a process leaves behind once the shell has its exit status: nothing.
NoProcess ==
  /\ sys_argv = <<PROG>>
  /\ HOME = home_h
  /\ HOMEGIT_REPO = s_default
  /\ GIT_EXECUTABLE = git_ok
  /\ VERBOSE = FALSE
  /\ cwd = home_h
  /\ tool = NoTool
  /\ parsed_command = Unparsed
  /\ handler = ""
  /\ out = <<>>
  /\ launched = <<>>
  /\ steps = <<>>
  /\ exc = ""
  /\ exitCode = 0

Init ==
  /\ phase = "prompt"
  /\ rootExists \in BOOLEAN
  /\ repos = [r \in RepoNames |-> Absent]
  /\ initDone = [r \in RepoNames |-> FALSE]
  /\ pre = [root |-> rootExists, repos |-> repos, initDone |-> initDone]
  /\ NoProcess
  /\ race = [p \in Procs |-> NotStarted]

(* ------------------------------- invocations -------------------------- *)

\* The orders in which a set can iterate.
Orders(S) ==
  {o \in [1..Cardinality(S) -> S] : \A i, j \in DOMAIN o : o[i] = o[j] => i = j}

\* The process ends with context c: what it leaves in the filesystem and
\* what the shell and the terminal have seen of it.
Exit(e, c) ==
  /\ phase' = "exited"
  /\ rootExists' = c.root
  /\ repos' = c.repos
  /\ initDone' =
       IF c.parsed.command = s_INIT /\ exit_status(c) = 0
         THEN [initDone EXCEPT ![e.HOMEGIT_REPO] = TRUE]
       ELSE IF c.parsed.command = s_UNTRACK
         THEN [initDone EXCEPT ![e.HOMEGIT_REPO] = FALSE]
       ELSE initDone
  /\ pre' = [root |-> rootExists, repos |-> repos, initDone |-> initDone]
  /\ sys_argv' = e.argv
  /\ HOME' = e.HOME
  /\ HOMEGIT_REPO' = e.HOMEGIT_REPO
  /\ GIT_EXECUTABLE' = e.GIT_EXECUTABLE
  /\ VERBOSE' = e.VERBOSE
  /\ cwd' = e.cwd
  /\ tool' = e.tool
  /\ parsed_command' = c.parsed
  /\ handler' = c.handler
  /\ out' = IF c.exc \notin {"", "SystemExit"}
              THEN Append(c.out, [m |-> "Traceback", a |-> <<>>])
              ELSE c.out
  /\ launched' = c.launched
  /\ steps' = c.steps
  /\ exc' = c.exc
  /\ exitCode' = exit_status(c)
  /\ UNCHANGED race

\* One run of the program from start to exit in environment e.
Invoke(e) ==
  \E order \in IF e.HOME = PyNone THEN {<<>>}
               ELSE Orders(parse_command(e.argv).ignored_args) :
    Exit(e, main(e, order, [root |-> rootExists, repos |-> repos]))

\* The shell has the exit status and shows its prompt again: the process and
\* everything it held are gone, the directories stay.
Return ==
  /\ phase = "exited"
  /\ phase' = "prompt"
  /\ sys_argv' = <<PROG>>
  /\ HOME' = home_h
  /\ HOMEGIT_REPO' = s_default
  /\ GIT_EXECUTABLE' = git_ok
  /\ VERBOSE' = FALSE
  /\ cwd' = home_h
  /\ tool' = NoTool
  /\ parsed_command' = Unparsed
  /\ handler' = ""
  /\ out' = <<>>
  /\ launched' = <<>>
  /\ steps' = <<>>
  /\ exc' = ""
  /\ exitCode' = 0
  /\ pre' = [root |-> rootExists, repos |-> repos, initDone |-> initDone]
  /\ UNCHANGED <<rootExists, repos, initDone, race>>

\* The command lines of the lifecycle model: sys.argv after the program name.
CmdLines ==
  { <<>>, <<Lower(s_HELP)>>, <<s_d_h>>,
    <<Lower(s_VERSION)>>, <<s_dd_version>>,
    <<s_init>>, <<s_INIT>>, <<s_init, s_dd_bare>>,
    <<s_clone>>, <<s_clone, url_a>>, <<s_clone, url_b>>,
    <<Lower(s_UNTRACK)>>,
    <<s_status>>, <<s_status, s_dd_git_dir>>, <<s_dd_work_tree, s_dd_bare>> }

Argvs == {<<PROG>> \o a : a \in CmdLines}

\* The repository names the lifecycle model runs with.
MainRepos == {s_default}

\* The environments of the invocations that classify to command: the inputs
\* a handler never reads are held at one value.
Envs(command, repoNames, cwds, tools) ==
  [argv : {a \in Argvs : parse_command(a).command = command},
   HOME : HomeVals, HOMEGIT_REPO : repoNames, GIT_EXECUTABLE : GitVals,
   VERBOSE : BOOLEAN, cwd : cwds, tool : tools]

NoHome ==
  /\ phase = "prompt"
  /\ \E e \in [argv : Argvs, HOME : {PyNone}, HOMEGIT_REPO : MainRepos,
               GIT_EXECUTABLE : {git_ok}, VERBOSE : {FALSE}, cwd : {home_h},
               tool : {NoTool}] :
       /\ e.HOME = PyNone
       /\ Invoke(e)

RunHelp ==
  /\ phase = "prompt"
  /\ \E command \in {PyNone, s_HELP} :
       \E e \in Envs(command, MainRepos, {home_h}, {NoTool}) :
         /\ e.GIT_EXECUTABLE = git_ok /\ ~e.VERBOSE
         /\ Invoke(e)

RunVersion ==
  /\ phase = "prompt"
  /\ \E e \in Envs(s_VERSION, MainRepos, {home_h},
                   {[NoTool EXCEPT !.version = rc] : rc \in ExitCodes}) :
       /\ e.HOME # PyNone
       /\ Invoke(e)

RunInit ==
  /\ phase = "prompt"
  /\ \E e \in Envs(s_INIT, MainRepos, {home_h},
                   {[NoTool EXCEPT !.init = a, !.config = b] :
                      a \in ExitCodes, b \in ExitCodes}) :
       /\ e.HOME # PyNone
       /\ Invoke(e)

RunClone ==
  /\ phase = "prompt"
  /\ \E e \in Envs(s_CLONE, MainRepos, {home_h},
                   {[NoTool EXCEPT !.clone = a, !.config = b, !.checkout = d] :
                      a \in ExitCodes, b \in ExitCodes, d \in ExitCodes}) :
       /\ e.HOME # PyNone
       /\ Invoke(e)

RunUntrack ==
  /\ phase = "prompt"
  /\ \E e \in Envs(s_UNTRACK, MainRepos, {home_h}, {NoTool}) :
       /\ e.GIT_EXECUTABLE = git_ok /\ ~e.VERBOSE
       /\ Invoke(e)

RunGit ==
  /\ phase = "prompt"
  /\ \E e \in Envs(s_GIT, MainRepos, Cwds,
                   {[NoTool EXCEPT !.git = rc] : rc \in ExitCodes}) :
       /\ e.HOME # PyNone
       /\ Invoke(e)

Next ==
  \/ NoHome
  \/ RunHelp
  \/ RunVersion
  \/ RunInit
  \/ RunClone
  \/ RunUntrack
  \/ RunGit
  \/ Return

Spec == Init /\ [][Next]_vars

(* ------------------------ the classifier alone ------------------------ *)

\* Every upper/lower-case spelling of a word.
CaseVariants(word) ==
  {[i \in DOMAIN word |-> IF i \in S THEN UpperChar(word[i]) ELSE word[i]] :
     S \in SUBSET DOMAIN word}

\* The recognized literals: init, clone, help, version, untrack.
Literals == {Lower(COMMANDS[i]) : i \in DOMAIN COMMANDS}

FirstTokens ==
  UNION {CaseVariants(w) : w \in Literals}
    \cup {s_dd_version, s_d_v, s_dd_help, s_d_h, s_status}
    \cup Range(IGNORED_ARGS)

RestTokens ==
  {s_init, s_dd_help, s_d_v, s_status, url_a} \cup Range(IGNORED_ARGS)

\* The argument lists of at most MaxArgs tokens.
ParseArgs ==
  {<<>>} \cup
  UNION {{<<f>> \o r : f \in FirstTokens, r \in [1..(n - 1) -> RestTokens]} :
           n \in 1..MaxArgs}

\* A process that has its argument list and has not classified it yet.
InitParse ==
  /\ phase = "prompt"
  /\ rootExists = FALSE
  /\ repos = [r \in RepoNames |-> Absent]
  /\ initDone = [r \in RepoNames |-> FALSE]
  /\ pre = [root |-> rootExists, repos |-> repos, initDone |-> initDone]
  /\ sys_argv \in {<<PROG>> \o a : a \in ParseArgs}
  /\ HOME = home_h
  /\ HOMEGIT_REPO = s_default
  /\ GIT_EXECUTABLE = git_ok
  /\ VERBOSE = FALSE
  /\ cwd = home_h
  /\ tool = NoTool
  /\ parsed_command = Unparsed
  /\ handler = ""
  /\ out = <<>>
  /\ launched = <<>>
  /\ steps = <<>>
  /\ exc = ""
  /\ exitCode = 0
  /\ race = [p \in Procs |-> NotStarted]

\* parse_command() applied to the argument list.
Classify ==
  /\ parsed_command = Unparsed
  /\ parsed_command' = parse_command(sys_argv)
  /\ UNCHANGED <<phase, rootExists, repos, initDone, pre, sys_argv, HOME,
                 HOMEGIT_REPO, GIT_EXECUTABLE, VERBOSE, cwd, tool, out,
                 handler, launched, steps, exc, exitCode, race>>

NextParse == Classify

SpecParse == InitParse /\ [][NextParse]_vars

(* ----------------- one invocation per argument list ------------------- *)

\* First tokens: the literals, one literal in upper case, the convenience
\* flags, a git subcommand and the ignored flags.
ArgFirstTokens ==
  Literals \cup {s_INIT, s_dd_version, s_d_v, s_dd_help, s_d_h, s_status}
    \cup Range(IGNORED_ARGS)

\* The argument lists of at most MaxTokens tokens.
ArgLists ==
  {<<>>} \cup
  UNION {{<<f>> \o r : f \in ArgFirstTokens, r \in [1..(n - 1) -> RestTokens]} :
           n \in 1..MaxTokens}

\* A shell prompt with the storage root in place and the repository either
\* Absent or as a successful Init left it.
InitArgs ==
  /\ phase = "prompt"
  /\ rootExists = TRUE
  /\ repos \in {[r \in RepoNames |-> Absent],
                [r \in RepoNames |->
                   IF r = s_default
                     THEN [present |-> TRUE, populated |-> TRUE,
                           origin |-> PyNone, untrackedNo |-> TRUE]
                     ELSE Absent]}
  /\ initDone = [r \in RepoNames |-> repos[r].present]
  /\ pre = [root |-> rootExists, repos |-> repos, initDone |-> initDone]
  /\ NoProcess
  /\ race = [p \in Procs |-> NotStarted]

\* main() run once on an argument list, with HOME set or unset.
RunArgs ==
  /\ phase = "prompt"
  /\ \E e \in [argv : {<<PROG>> \o a : a \in ArgLists},
               HOME : {home_h, PyNone}, HOMEGIT_REPO : MainRepos,
               GIT_EXECUTABLE : {git_ok}, VERBOSE : {FALSE}, cwd : {home_h},
               tool : {NoTool}] :
       Invoke(e)

NextArgs == RunArgs

SpecArgs == InitArgs /\ [][NextArgs]_vars

(* -------------------- two repositories, one storage root -------------- *)

\* What the external tool answers in the two-repository model: every step
\* succeeds, or one of them exits 1.
NamedTools ==
  {NoTool, [NoTool EXCEPT !.init = 1], [NoTool EXCEPT !.clone = 1],
   [NoTool EXCEPT !.config = 1], [NoTool EXCEPT !.checkout = 1],
   [NoTool EXCEPT !.git = 1]}

\* One invocation configured for the repository called name.
RunNamed(name) ==
  /\ phase = "prompt"
  /\ \E e \in [argv : Argvs, HOME : {home_h}, HOMEGIT_REPO : {name},
               GIT_EXECUTABLE : {git_ok}, VERBOSE : {FALSE}, cwd : {home_h},
               tool : NamedTools] :
       Invoke(e)

NextRepos ==
  \/ \E name \in RepoNames : RunNamed(name)
  \/ Return

SpecRepos == Init /\ [][NextRepos]_vars

(* ---------------------- two overlapping Clones ------------------------ *)

\* The environment of a racing Clone: the external tool answers config and
\* checkout with rc, and the bare-clone with rc.
RaceEnv(url, rc) ==
  [argv |-> <<PROG, s_clone, url>>, HOME |-> home_h,
   HOMEGIT_REPO |-> s_default, GIT_EXECUTABLE |-> git_ok, VERBOSE |-> FALSE,
   cwd |-> home_h,
   tool |-> [NoTool EXCEPT !.clone = rc, !.config = rc, !.checkout = rc]]

\* The filesystem as a racing process finds it at its next step.
RaceCtx == Ctx0([root |-> rootExists, repos |-> repos])

\* Nothing but the directories and the racing processes changes.
RaceFrame ==
  UNCHANGED <<phase, initDone, pre, sys_argv, HOME, HOMEGIT_REPO,
              GIT_EXECUTABLE, VERBOSE, cwd, tool, parsed_command, handler,
              out, launched, steps, exc, exitCode>>

\* Process p has made its step and holds context c: it goes on to line
\* next, or ends at the error boundary of run_clone if c carries an
\* exception.
RaceStep(p, c, next) ==
  /\ rootExists' = c.root
  /\ repos' = c.repos
  /\ race' = [race EXCEPT
       ![p].pc = IF Raised(c) THEN "done" ELSE next,
       ![p].exc = c.exc,
       ![p].code = exit_status(friendly_error_messages(c)),
       ![p].cloned = @ \/ "git clone" \in Range(c.steps),
       ![p].printed = @ \/ "Cloned repo" \in Range(c.steps)]
  /\ RaceFrame

\* clone_repo, lines 129-135: c is the context after the origin query.
clone_repo_compare(c, dir_exists, existing_repo_url, git_repo_url) ==
  IF dir_exists /\ ~same_url(existing_repo_url, git_repo_url)
    THEN raise(c, "ExistingRepoDir")
  ELSE IF same_url(existing_repo_url, git_repo_url)
    THEN sys_exit_code(print(c, "Repo is already cloned", <<>>), 0)
  ELSE c

\* A shell starts `homegit clone url`: run_clone unpacks sys.argv.
CloneStart(p) ==
  /\ race[p].pc = "idle"
  /\ \E url \in Urls :
       race' = [race EXCEPT ![p].pc = "126", ![p].url = url]
  /\ UNCHANGED <<rootExists, repos>>
  /\ RaceFrame

\* dir_exists = bare_repo_dir_exists()
CloneExists(p) ==
  /\ race[p].pc = "126"
  /\ race' = [race EXCEPT
       ![p].pc = "127",
       ![p].dir_exists = bare_repo_dir_exists(RaceEnv(race[p].url, 0), RaceCtx)]
  /\ UNCHANGED <<rootExists, repos>>
  /\ RaceFrame

\* existing_repo_url = get_remote_origin_url() if dir_exists else None
CloneOrigin(p) ==
  /\ race[p].pc = "127"
  /\ race' = [race EXCEPT
       ![p].pc = "129",
       ![p].existing =
         IF race[p].dir_exists
           THEN get_remote_origin_url(RaceEnv(race[p].url, 0), RaceCtx)
           ELSE NoneVal]
  /\ UNCHANGED <<rootExists, repos>>
  /\ RaceFrame

\* The two tests on dir_exists and existing_repo_url.
CloneCompare(p) ==
  /\ race[p].pc = "129"
  /\ RaceStep(p,
       clone_repo_compare(RaceCtx, race[p].dir_exists, race[p].existing,
                          race[p].url),
       "137")

\* try: os.mkdir(HOMEGIT_DIR) except FileExistsError: pass
CloneMkdirRoot(p) ==
  /\ race[p].pc = "137"
  /\ RaceStep(p, mkdir_homegit_dir(RaceCtx), "142")

\* os.mkdir(BARE_REPO_DIR)
CloneMkdirRepo(p) ==
  /\ race[p].pc = "142"
  /\ RaceStep(p, mkdir_bare_repo_dir(RaceEnv(race[p].url, 0), RaceCtx), "144")

\* The bare-clone is launched and exits with rc.
CloneLaunch(p) ==
  /\ race[p].pc = "144"
  /\ \E rc \in {0, 1} :
       RaceStep(p,
         git_clone_effect(RaceEnv(race[p].url, rc),
           reraise(run(RaceEnv(race[p].url, rc), RaceCtx, "git clone",
                       <<git_ok, s_clone, s_dd_bare, race[p].url,
                         BARE_REPO_DIR(RaceEnv(race[p].url, rc))>>,
                       TRUE, TRUE, rc),
                   "CloneFailure"),
           race[p].url),
         "220")

\* do_not_show_untracked_files(), the tool exiting with rc.
CloneSetting(p) ==
  /\ race[p].pc = "220"
  /\ \E rc \in {0, 1} :
       RaceStep(p,
         do_not_show_untracked_files(RaceEnv(race[p].url, rc), RaceCtx),
         "221")

\* The checkout, the warning if it failed, and the success line.
CloneCheckout(p) ==
  /\ race[p].pc = "221"
  /\ \E rc \in {0, 1} :
       RaceStep(p,
         then_print(
           checkout_warning(RaceEnv(race[p].url, rc),
             checkout_repo_run(RaceEnv(race[p].url, rc), RaceCtx)),
           "Cloned repo"),
         "done")

NextRace ==
  \E p \in Procs :
    \/ CloneStart(p)
    \/ CloneExists(p)
    \/ CloneOrigin(p)
    \/ CloneCompare(p)
    \/ CloneMkdirRoot(p)
    \/ CloneMkdirRepo(p)
    \/ CloneLaunch(p)
    \/ CloneSetting(p)
    \/ CloneCheckout(p)

SpecRace == Init /\ [][NextRace]_vars

(* ------------------------------- properties --------------------------- *)

\* A process has just exited after classifying its command as command.
Ran(command) == phase = "exited" /\ parsed_command.command = command

Printed(m) == \E i \in DOMAIN out : out[i].m = m

Did(step) == step \in Range(steps)

\* The configured repository's directory after and before the invocation.
Repo == repos[HOMEGIT_REPO]
PreRepo == pre.repos[HOMEGIT_REPO]

FilesystemUnchanged == rootExists = pre.root /\ repos = pre.repos

\* cwd is the home directory or a descendant of it, by path components.
InsideHome ==
  LET home == abspath(HOME)
  IN \/ cwd = home
     \/ /\ Len(cwd) > Len(home)
        /\ SubSeq(cwd, 1, Len(home)) = home
        /\ cwd[Len(home) + 1] = "/"

\* C1: Init on an Absent repository, every external-tool call succeeding,
\* ends with the directory Present, the untracked-files setting applied, the
\* success line printed and exit code 0, whether or not the storage root
\* existed before.
C1_InitOnAbsentSucceeds ==
  (/\ Ran(s_INIT)
   /\ ~PreRepo.present
   /\ GIT_EXECUTABLE = git_ok
   /\ tool.init = 0
   /\ tool.config = 0)
  => (/\ Repo.present
      /\ Repo.untrackedNo
      /\ Printed("Initialized repo")
      /\ exitCode = 0)

\* C2: Clone with URL u against a Present repository whose origin URL is u
\* prints the "already cloned" notice and exits 0, changes no directory and
\* launches no bare-clone, setting or checkout step.
C2_CloneSameUrlIsNoop ==
  (/\ Ran(s_CLONE)
   /\ Len(sys_argv) = 3
   /\ GIT_EXECUTABLE = git_ok
   /\ PreRepo.present
   /\ PreRepo.populated
   /\ PreRepo.origin = sys_argv[3])
  => (/\ Printed("Repo is already cloned")
      /\ exitCode = 0
      /\ FilesystemUnchanged
      /\ ~Did("git clone")
      /\ ~Did("git config")
      /\ ~Did("git checkout"))

\* C3: when a pass-through command reaches the external tool, the process's
\* exit code is the tool's exit code, zero or not.
C3_PassThroughExitCode ==
  (Ran(s_GIT) /\ Did("git"))
  => exitCode = launched[Len(launched)].rc

\* C4: a bare-repo directory that is present was produced by a Clone or an
\* Init whose repository-creation step succeeded.
C4_PresentWasCreated ==
  \A r \in RepoNames : repos[r].present => repos[r].populated

\* C5: Init on a Present repository, and so an Init after an Init that
\* succeeded with no Untrack in between, prints the ExistingRepoDir message,
\* exits non-zero, launches nothing and leaves the repository directory and
\* the storage root as they were.
C5_InitOnPresentRefused ==
  (Ran(s_INIT) /\ (PreRepo.present \/ pre.initDone[HOMEGIT_REPO]))
  => (/\ Printed("Existing repo")
      /\ exitCode # 0
      /\ launched = <<>>
      /\ FilesystemUnchanged)

C5_Witness ==
  /\ Ran(s_INIT)
  /\ pre.initDone[HOMEGIT_REPO]
  /\ Printed("Existing repo")
  /\ exitCode = 1

\* The case of C6: Clone with URL u against a Present repository whose
\* origin URL is not u, or that has none.
C6_Case ==
  /\ Ran(s_CLONE)
  /\ Len(sys_argv) = 3
  /\ PreRepo.present
  /\ PreRepo.origin # sys_argv[3]

\* C6, as stated: such a Clone fails with the ExistingRepoDir message and a
\* non-zero exit code, launches no bare-clone and leaves the directory.
C6_Original ==
  C6_Case
  => (/\ Printed("Existing repo")
      /\ exitCode # 0
      /\ ~Did("git clone")
      /\ FilesystemUnchanged)

\* C6, amended: such a Clone exits non-zero, launches no bare-clone and
\* leaves the directory; the message is ExistingRepoDir's exactly when the
\* origin-URL query was launched, the executable-not-found message when
\* GIT_EXECUTABLE names no file, and a TypeError traceback when no
\* executable was found at all.
C6_CloneOtherUrlRefused ==
  C6_Case
  => (/\ exitCode # 0
      /\ ~Did("git clone")
      /\ FilesystemUnchanged
      /\ Printed("Existing repo") <=> GIT_EXECUTABLE = git_ok
      /\ Printed("Existing repo") <=> Did("git config --get")
      /\ GIT_EXECUTABLE = git_missing
           => Printed("Error executing git: No such file or directory")
      /\ GIT_EXECUTABLE = PyNone => exc = "TypeError")

C6_Witness ==
  /\ C6_Case
  /\ PreRepo.origin = url_a
  /\ sys_argv[3] = url_b
  /\ Printed("Existing repo")
  /\ exitCode = 1

\* C7: a pass-through command issued while the bare-repo directory is
\* Absent exits non-zero with the "unknown repo" message and launches no
\* process, whatever the working directory and the arguments.
C7_PassThroughOnAbsent ==
  (Ran(s_GIT) /\ ~PreRepo.present)
  => (/\ exitCode # 0
      /\ Printed("Unknown repo")
      /\ launched = <<>>
      /\ FilesystemUnchanged)

C7_Witness ==
  /\ Ran(s_GIT)
  /\ ~PreRepo.present
  /\ pre.root
  /\ cwd = cwd_h_d
  /\ Len(sys_argv) = 3
  /\ Printed("Unknown repo")

\* C8: a pass-through command issued with a Present repository from a
\* working directory that is neither the home directory nor a descendant of
\* it exits non-zero with the location error and launches no process (stated
\* for the invocations whose executable can be launched).
C8_OutsideHomeRefused ==
  (Ran(s_GIT) /\ PreRepo.present /\ ~InsideHome /\ GIT_EXECUTABLE = git_ok)
  => (/\ exitCode # 0
      /\ Printed("The current working directory must be run within HOME")
      /\ launched = <<>>)

\* C9: Untrack on a Present repository leaves the directory Absent and
\* prints the success line; the success line is printed only if the removal
\* completed; Untrack on an Absent repository prints no success line, ends
\* in a failure and leaves the repository Absent.
C9_Untrack ==
  Ran(s_UNTRACK)
  => (/\ ~Repo.present
      /\ PreRepo.present
           => (Printed("Stopped tracking homegit repo") /\ exitCode = 0)
      /\ Printed("Stopped tracking homegit repo")
           => (PreRepo.present /\ Did("rmtree BARE_REPO_DIR"))
      /\ ~PreRepo.present
           => (/\ ~Printed("Stopped tracking homegit repo")
               /\ exitCode # 0
               /\ exc = "FileNotFoundError"))

C9_Witness ==
  /\ Ran(s_UNTRACK)
  /\ PreRepo.present
  /\ ~Repo.present
  /\ Printed("Stopped tracking homegit repo")

\* The enum member a word names: Command[word.upper()].
NamedCommand(word) == [i \in DOMAIN word |-> UpperChar(word[i])]

\* The first token has been classified and spells a recognized literal in
\* some mix of upper and lower case.
C10_Case ==
  /\ parsed_command # Unparsed
  /\ Len(sys_argv) > 1
  /\ Lower(sys_argv[2]) \in Literals

\* C10, as stated: every upper/lower-case variant of a recognized literal
\* is classified as the lower-case literal is.
C10_Original ==
  C10_Case => parsed_command.command = NamedCommand(sys_argv[2])

\* C10, amended: the first token is matched exactly; the lower-case literal
\* is classified as its action and every other upper/lower-case variant of
\* it as pass-through.
C10_CaseSensitive ==
  C10_Case
  => parsed_command.command =
       IF sys_argv[2] \in Literals THEN NamedCommand(sys_argv[2]) ELSE s_GIT

C10_Witness ==
  /\ C10_Case
  /\ sys_argv[2] = s_INIT
  /\ parsed_command.command = s_GIT

\* The argument list typed after the program name.
Args == Tail(sys_argv)

\* The warning lines printed for an ignored flag.
Warnings(flag) ==
  {i \in DOMAIN out : out[i] = [m |-> "Ignoring argument", a |-> flag]}

\* The handler main calls for a classified command: lines 274-285.
HandlerOf(command) ==
  IF command \in {PyNone, s_HELP} THEN "run_help"
  ELSE IF command = s_VERSION THEN "run_version"
  ELSE IF command = s_INIT THEN "run_init"
  ELSE IF command = s_CLONE THEN "run_clone"
  ELSE IF command = s_UNTRACK THEN "run_untrack"
  ELSE "run_git"

\* C11: for every argument list run with HOME set, one warning line is
\* printed for each ignored flag (--bare, --git-dir, --work-tree) that is a
\* token of the list, however many times and wherever it appears, none for
\* a flag that is not, and nothing else is a warning; the classified action
\* and the handler are those of the first token alone.
C11_WarningsAndDispatch ==
  (phase = "exited" /\ HOME # PyNone)
  => (/\ \A flag \in Range(IGNORED_ARGS) :
            Cardinality(Warnings(flag)) =
              IF flag \in Range(Args) THEN 1 ELSE 0
      /\ \A i \in DOMAIN out :
            out[i].m = "Ignoring argument" => out[i].a \in Range(IGNORED_ARGS)
      /\ parsed_command.command =
            parse_command(SubSeq(sys_argv, 1, IF Args = <<>> THEN 1 ELSE 2)).command
      /\ handler = HandlerOf(parsed_command.command))

C11_Witness ==
  /\ phase = "exited"
  /\ Args = <<s_init, s_dd_bare, s_dd_bare>>
  /\ Cardinality(Warnings(s_dd_bare)) = 1
  /\ handler = "run_init"

\* C12: the argument vector a pass-through command hands to the external
\* tool is the executable, --git-dir=<bare-repo path>, --work-tree=<HOME>,
\* then every argument after the program name, in order and as typed, the
\* ignored flags among them included; it is the only process launched.
C12_PassThroughVector ==
  (phase = "exited" /\ handler = "run_git" /\ Did("git"))
  => (/\ Len(launched) = 1
      /\ launched[1].cmd =
            <<GIT_EXECUTABLE,
              s_git_dir_eq \o HOME \o s_dot_homegit \o s_slash \o HOMEGIT_REPO,
              s_work_tree_eq \o HOME>> \o Args)

C12_Witness ==
  /\ phase = "exited"
  /\ handler = "run_git"
  /\ Args = <<s_status, s_dd_git_dir, s_status>>
  /\ Len(launched) = 1
  /\ Len(launched[1].cmd) = 6
  /\ launched[1].cmd[5] = s_dd_git_dir

\* The invocation came to launch the external tool: Version always does,
\* Init when the directory is Absent, Clone once it has its URL, a
\* pass-through command once its two checks have passed.
C13_Launching ==
  \/ handler = "run_version"
  \/ handler = "run_init" /\ ~PreRepo.present
  \/ handler = "run_clone" /\ Len(sys_argv) = 3
  \/ handler = "run_git" /\ PreRepo.present
       /\ commonprefix(cwd, abspath(HOME)) = abspath(HOME)

\* C13: in every action that launches the external tool (init, clone,
\* pass-through, version), an executable that is missing at launch ends the
\* process with the executable-not-found message and a non-zero exit code,
\* through sys.exit at the error boundary and not as an exception that
\* reaches the interpreter.
C13_MissingExecutable ==
  (phase = "exited" /\ GIT_EXECUTABLE = git_missing /\ C13_Launching)
  => (/\ Printed("Error executing git: No such file or directory")
      /\ exitCode # 0
      /\ exc = "SystemExit"
      /\ launched = <<>>)

\* C14: with HOME unset every invocation, whatever its arguments, exits
\* non-zero having printed only the HOME message: it has not classified the
\* command, called a handler, printed an ignored-flag warning, launched a
\* process or changed a directory.
C14_NoHomeExitsFirst ==
  (phase = "exited" /\ HOME = PyNone)
  => (/\ exitCode # 0
      /\ exc = "SystemExit"
      /\ parsed_command = Unparsed
      /\ handler = ""
      /\ out = <<[m |-> "You must set a value of the HOME environment vairable",
                  a |-> <<>>]>>
      /\ Len(steps) = 1
      /\ launched = <<>>
      /\ FilesystemUnchanged)

C14_Witness ==
  /\ phase = "exited"
  /\ HOME = PyNone
  /\ Args = <<s_init, s_dd_bare>>
  /\ ~PreRepo.present
  /\ exitCode = 1

\* The handler the lookup table gives a first token: the five literals and
\* the four convenience flags have their action, any other token is a
\* pass-through command.
C15_TableHandler(token) ==
  IF token = s_init THEN "run_init"
  ELSE IF token = s_clone THEN "run_clone"
  ELSE IF token \in {Lower(s_HELP), s_dd_help, s_d_h} THEN "run_help"
  ELSE IF token \in {Lower(s_VERSION), s_dd_version, s_d_v} THEN "run_version"
  ELSE IF token = Lower(s_UNTRACK) THEN "run_untrack"
  ELSE "run_git"

\* C15: every invocation with HOME set calls exactly one handler, chosen
\* from the first token only: Help for an empty argument list, the table's
\* action for a first token in the table, pass-through for any other; the
\* tokens after the first play no part.
C15_DispatchOnFirstToken ==
  (phase = "exited" /\ HOME # PyNone)
  => (/\ handler \in {"run_help", "run_version", "run_init", "run_clone",
                      "run_untrack", "run_git"}
      /\ handler = IF Args = <<>> THEN "run_help"
                   ELSE C15_TableHandler(Args[1]))

C15_Witness ==
  /\ phase = "exited"
  /\ HOME # PyNone
  /\ Args = <<s_status, s_dd_help, s_d_v>>
  /\ handler = "run_git"

\* The steps of a Clone, in the order the claim gives them.
C16_Order ==
  <<"mkdir HOMEGIT_DIR", "mkdir BARE_REPO_DIR", "git clone", "git config",
    "git checkout", "Warning: could not checkout latest changes",
    "Cloned repo">>

\* The Clone steps the invocation has performed, in the order it did them.
C16_Performed == SelectSeq(steps, LAMBDA st : st \in Range(C16_Order))

C16_Position(st) == CHOOSE k \in DOMAIN C16_Order : C16_Order[k] = st

\* A Clone given its URL has run against an Absent repository.
C16_Case ==
  /\ Ran(s_CLONE)
  /\ Len(sys_argv) = 3
  /\ ~PreRepo.present

\* C16: Clone on an Absent repository performs its steps in the order:
\* storage root created if missing, target directory created, bare-clone,
\* untracked-files setting, checkout, success line, each at most once. The
\* setting step follows only a successful clone and the checkout only a
\* successful clone and setting step; the success line is printed, and the
\* exit code is 0, exactly when the clone and the setting step succeeded; a
\* failed checkout adds the warning line and changes nothing else.
C16_CloneOnAbsentOrder ==
  C16_Case
  => (/\ \A i, j \in DOMAIN C16_Performed :
            i < j => C16_Position(C16_Performed[i]) < C16_Position(C16_Performed[j])
      /\ Did("mkdir HOMEGIT_DIR") <=> ~pre.root
      /\ Did("mkdir BARE_REPO_DIR")
      /\ Did("git clone") <=> GIT_EXECUTABLE = git_ok
      /\ Did("git config") <=> (Did("git clone") /\ tool.clone = 0)
      /\ Did("git checkout") <=> (Did("git config") /\ tool.config = 0)
      /\ Printed("Cloned repo") <=> Did("git checkout")
      /\ exitCode = 0 <=> Printed("Cloned repo")
      /\ Printed("Warning: could not checkout latest changes")
           <=> (Did("git checkout") /\ tool.checkout # 0))

C16_Witness ==
  /\ C16_Case
  /\ ~pre.root
  /\ tool.checkout = 1
  /\ C16_Performed = C16_Order
  /\ exitCode = 0
  /\ Repo.populated

\* The directory an Init leaves when its creation step succeeded and its
\* setting step did not: a repository with no origin and no setting.
C17_HalfInitialized ==
  [present |-> TRUE, populated |-> TRUE, origin |-> PyNone,
   untrackedNo |-> FALSE]

\* C17: an Init whose "git init" succeeded and whose setting step failed
\* exits non-zero with the setting-failure message and no success line and
\* leaves the directory it created; an Init that finds the directory so
\* left is refused with the ExistingRepoDir message and launches nothing.
C17_NoRollback ==
  /\ (Ran(s_INIT) /\ Did("git init") /\ tool.init = 0 /\ tool.config # 0)
     => (/\ exitCode # 0
         /\ Printed("Error setting status.showUntrackedFiles")
         /\ ~Printed("Initialized repo")
         /\ ~pre.initDone[HOMEGIT_REPO] /\ ~initDone[HOMEGIT_REPO]
         /\ Repo = C17_HalfInitialized
         /\ rootExists)
  /\ (Ran(s_INIT) /\ PreRepo = C17_HalfInitialized)
     => (/\ exitCode # 0
         /\ Printed("Existing repo")
         /\ launched = <<>>
         /\ Repo = PreRepo)

C17_Witness ==
  /\ Ran(s_INIT)
  /\ PreRepo = C17_HalfInitialized
  /\ ~pre.initDone[HOMEGIT_REPO]
  /\ Printed("Existing repo")
  /\ exitCode = 1

\* C18: the setting-failure message is printed only when the
\* untracked-files setting step of an Init or a Clone failed, never because
\* a pass-through command's external tool returned a non-zero exit code.
C18_SettingMessageOnlyFromSetting ==
  (phase = "exited" /\ Printed("Error setting status.showUntrackedFiles"))
  => (/\ handler \in {"run_init", "run_clone"}
      /\ Did("git config")
      /\ tool.config # 0)

\* C19: with two named repositories under one storage root, an invocation
\* configured for one of them leaves the other's bare-repo directory as it
\* was, whatever the command; and Help, Version and a pass-through command
\* change neither a bare-repo directory nor the storage root.
C19_OtherRepoUntouched ==
  phase = "exited"
  => (/\ \A r \in RepoNames \ {HOMEGIT_REPO} : repos[r] = pre.repos[r]
      /\ handler \in {"run_help", "run_version", "run_git"}
           => FilesystemUnchanged)

C19_Witness ==
  /\ Ran(s_UNTRACK)
  /\ HOMEGIT_REPO = s_work
  /\ PreRepo.populated
  /\ ~Repo.present
  /\ repos[s_default].populated
  /\ repos[s_default].origin = url_a

\* C20: of two Clone invocations for the same Absent repository that
\* overlap, in any interleaving, at most one launches the bare-clone and at
\* most one prints the "Cloned" line; one that has ended without launching
\* it stopped at the existence check (ExistingRepoDir) or at the creation
\* of the directory (FileExistsError), with a non-zero exit status.
C20_ExclusiveClone ==
  /\ Cardinality({p \in Procs : race[p].cloned}) <= 1
  /\ Cardinality({p \in Procs : race[p].printed}) <= 1
  /\ \A p \in Procs :
       (race[p].pc = "done" /\ ~race[p].cloned)
       => (/\ race[p].exc \in {"ExistingRepoDir", "FileExistsError"}
           /\ race[p].code # 0)
  /\ \A p \in Procs : race[p].printed => race[p].cloned

C20_Witness ==
  /\ \A p \in Procs : race[p].pc = "done"
  /\ \E p, q \in Procs :
       /\ race[p].printed
       /\ race[q].exc = "FileExistsError"
       /\ ~race[q].cloned
       /\ ~race[q].dir_exists

====
